---- MODULE Spec2Model ----
(***************************************************************************)
(* Model of the matchmaking and session-relay server, src/server.js.       *)
(*                                                                         *)
(* The server is single-threaded: every socket.io handler and every timer  *)
(* callback runs to completion, so each of them is one action.             *)
(*                                                                         *)
(* Library semantics the handlers rely on (socket.io v4):                  *)
(*   - io.sockets.sockets holds exactly the connected sockets;             *)
(*   - a socket has left every room, and io.sockets.sockets, by the time   *)
(*     its 'disconnect' handler runs;                                      *)
(*   - io.to(room).emit reaches the sockets in the room, and               *)
(*     socket.to(room).emit reaches them except the sender;                *)
(*   - for (id in object) visits the keys in one fixed order; the model    *)
(*     takes the order of the abstract ids 1..NumGameIds.                  *)
(*                                                                         *)
(* generateGameId() is Math.random(): the id of a new session is any id,   *)
(* one in use included.                                                    *)
(*                                                                         *)
(* Specifications:                                                         *)
(*   SpecLobby        the matchmaking handlers, the countdown and          *)
(*                    disconnect, any client. The relay handlers are left  *)
(*                    out: they write socket.data and emit, and leave the  *)
(*                    queue, the sessions, the rooms and the timers alone. *)
(*   Spec             every handler, any client, one game id.              *)
(*   SpecLobbyClient  SpecLobby with the matchmaking events sent as        *)
(*   SpecClient       src/js/lobby.js sends them; Spec likewise.           *)
(*   SpecJoins        joinMatchmaking only, each connection at most once,  *)
(*                    with one connection more than the other runs have.   *)
(*   SpecLeaveFair    SpecJoins with disconnects, every countdown timer    *)
(*                    firing.                                              *)
(*   SpecRoute        SpecLobbyClient with playerJoin, playerMove and       *)
(*                    playerShoot from any connected client.               *)
(*   SpecGame         SpecLobbyClient with the playerJoin events that the   *)
(*                    clients of src/js send on gameStart.                 *)
(*   SpecHits         pairing, playerJoin and playerHit with several       *)
(*                    damages, a negative one among them; one game id.     *)
(***************************************************************************)
EXTENDS Integers, Sequences, FiniteSets, TLC

\* ---------------------------------------------------------------- bounds
NumConns == 3        \* connections that ever connect
NumGameIds == 2      \* distinct values generateGameId returns, matchmaking runs
NumRelayGameIds == 1 \* distinct values generateGameId returns, relay runs
NumPositions == 1    \* distinct position (and rotation) payloads
NumArrows == 1       \* distinct playerShoot payloads
MaxMatches == 3      \* sessions created in one matchmaking run
MaxRelayMatches == 1 \* sessions created in one relay run
MaxRouteMatches == 2 \* sessions created in one routing run
NumJoinConns == 4    \* connections that ever connect, join-only runs
MaxQueue == 3        \* longest queue the removal of one entry is applied to
MaxHitHealth == 100  \* highest stored health explored, runs with negative damage

Conns == 1..NumConns
JoinConns == 1..NumJoinConns
GameIds == 1..NumGameIds
RelayGameIds == 1..NumRelayGameIds
Positions == 1..NumPositions
Rotations == 1..NumPositions
Arrows == 1..NumArrows
Damages == {60}
HitDamages == {-60, 30, 60}

\* ------------------------------------------------------ JavaScript values
Undefined == -1      \* a property never assigned
NaN == -2            \* undefined - damage
NoGameId == 0        \* let gameId = null

COUNTDOWN == 5
INITIAL_HEALTH == 100

VARIABLES
    sockets,         \* connection -> "new" | "connected" | "disconnected"
    waitingPlayers,  \* the matchmaking queue, a sequence of connections
    activeGames,     \* game id -> [players, state], for the ids present
    rooms,           \* game id -> the connected sockets that joined the room
    timers,          \* game id -> number of setTimeout callbacks pending
    data,            \* connection -> socket.data: team, position, rotation, health
    out,             \* what the last handler emitted, in order
    inFlight,        \* connection -> the playerJoin events its client emitted on
                     \* gameStart that the server has not handled yet
    matches          \* sessions created so far (bounds the runs, read by no handler)

vars ==
    <<sockets, waitingPlayers, activeGames, rooms, timers, data, out, inFlight,
      matches>>

\* ---------------------------------------------------------------- helpers
\* One emitted event: its name, the sockets it is delivered to, its payload.
Emit(ev, to, payload) == [ev |-> ev, to |-> to, payload |-> payload]

\* Array.prototype.indexOf, 0-based, -1 when absent.
RECURSIVE indexOfFrom(_, _, _)
indexOfFrom(arr, x, i) ==
    IF i > Len(arr) THEN -1
    ELSE IF arr[i] = x THEN i - 1
    ELSE indexOfFrom(arr, x, i + 1)

indexOf(arr, x) == indexOfFrom(arr, x, 1)

\* Array.prototype.includes
includes(arr, x) == \E i \in 1..Len(arr) : arr[i] = x

\* arr.splice(index, 1) with a 0-based index
splice(arr, index) ==
    [i \in 1..(Len(arr) - 1) |-> IF i <= index THEN arr[i] ELSE arr[i + 1]]

\* The games whose players include the socket.
gamesOf(socket) ==
    {id \in DOMAIN activeGames : includes(activeGames[id].players, socket)}

\* The first game (in key order) whose players include the socket, or null.
findGame(socket) ==
    LET found == gamesOf(socket)
    IN  IF found = {} THEN NoGameId
        ELSE CHOOSE id \in found : \A other \in found : id <= other

\* ------------------------------------------------------------------- Init
Init ==
    /\ sockets = [c \in Conns |-> "new"]
    /\ waitingPlayers = <<>>
    /\ activeGames = [id \in {} |-> 0]
    /\ rooms = [id \in GameIds |-> {}]
    /\ timers = [id \in GameIds |-> 0]
    /\ data = [c \in Conns |-> [team |-> "undefined", position |-> Undefined,
                                 rotation |-> Undefined, health |-> Undefined]]
    /\ out = <<>>
    /\ inFlight = [c \in DOMAIN sockets |-> <<>>]
    /\ matches = 0

\* io.on('connection'): the socket is registered and its handlers installed.
\* Socket ids are opaque: the k-th socket to connect is called k.
Connect(socket) ==
    /\ sockets[socket] = "new"
    /\ \A c \in DOMAIN sockets : c < socket => sockets[c] # "new"
    /\ sockets' = [sockets EXCEPT ![socket] = "connected"]
    /\ out' = <<>>
    /\ UNCHANGED <<matches, waitingPlayers, activeGames, rooms, timers, data, inFlight>>

\* matchPlayers taking player1 with pop() instead of shift(): the newest entry of
\* the queue becomes player1.
matchPlayers_PopFirst(queue, gameId, emitted) ==
    IF Len(queue) >= 2
    THEN LET player1 == queue[Len(queue)]
             player2 == queue[1]
             room == rooms[gameId] \cup {player1, player2}
         IN  /\ matches' = matches + 1
             /\ waitingPlayers' = SubSeq(queue, 2, Len(queue) - 1)
             /\ activeGames' =
                    [id \in DOMAIN activeGames \cup {gameId} |->
                        IF id = gameId
                        THEN [players |-> <<player1, player2>>, state |-> "starting"]
                        ELSE activeGames[id]]
             /\ rooms' = [rooms EXCEPT ![gameId] = room]
             /\ out' = Append(emitted,
                    Emit("gameMatched", room,
                         [gameId |-> gameId, countdown |-> COUNTDOWN,
                          players |-> << [id |-> player1, team |-> "A"],
                                         [id |-> player2, team |-> "B"] >>]))
             /\ timers' = [timers EXCEPT ![gameId] = @ + 1]
    ELSE /\ waitingPlayers' = queue
         /\ out' = emitted
         /\ UNCHANGED <<activeGames, rooms, timers, matches>>

\* matchPlayers reading player2 as waitingPlayers[0] without the second shift():
\* player2 stays in the queue.
matchPlayers_OneShift(queue, gameId, emitted) ==
    IF Len(queue) >= 2
    THEN LET player1 == queue[1]
             player2 == queue[2]
             room == rooms[gameId] \cup {player1, player2}
         IN  /\ matches' = matches + 1
             /\ waitingPlayers' = SubSeq(queue, 2, Len(queue))
             /\ activeGames' =
                    [id \in DOMAIN activeGames \cup {gameId} |->
                        IF id = gameId
                        THEN [players |-> <<player1, player2>>, state |-> "starting"]
                        ELSE activeGames[id]]
             /\ rooms' = [rooms EXCEPT ![gameId] = room]
             /\ out' = Append(emitted,
                    Emit("gameMatched", room,
                         [gameId |-> gameId, countdown |-> COUNTDOWN,
                          players |-> << [id |-> player1, team |-> "A"],
                                         [id |-> player2, team |-> "B"] >>]))
             /\ timers' = [timers EXCEPT ![gameId] = @ + 1]
    ELSE /\ waitingPlayers' = queue
         /\ out' = emitted
         /\ UNCHANGED <<activeGames, rooms, timers, matches>>

\* matchPlayers with `waitingPlayers.length > 2` for its test.
matchPlayers_MoreThanTwo(queue, gameId, emitted) ==
    IF Len(queue) > 2
    THEN LET player1 == queue[1]
             player2 == queue[2]
             room == rooms[gameId] \cup {player1, player2}
         IN  /\ matches' = matches + 1
             /\ waitingPlayers' = SubSeq(queue, 3, Len(queue))
             /\ activeGames' =
                    [id \in DOMAIN activeGames \cup {gameId} |->
                        IF id = gameId
                        THEN [players |-> <<player1, player2>>, state |-> "starting"]
                        ELSE activeGames[id]]
             /\ rooms' = [rooms EXCEPT ![gameId] = room]
             /\ out' = Append(emitted,
                    Emit("gameMatched", room,
                         [gameId |-> gameId, countdown |-> COUNTDOWN,
                          players |-> << [id |-> player1, team |-> "A"],
                                         [id |-> player2, team |-> "B"] >>]))
             /\ timers' = [timers EXCEPT ![gameId] = @ + 1]
    ELSE /\ waitingPlayers' = queue
         /\ out' = emitted
         /\ UNCHANGED <<activeGames, rooms, timers, matches>>

\* matchPlayers(), run on the queue as joinMatchmaking left it; `emitted` is what
\* the calling handler has emitted so far, gameId what generateGameId() returns
\* (Math.random: nothing makes it differ from a key in use).
matchPlayers(queue, gameId, emitted) ==
    IF Len(queue) >= 2
    THEN LET player1 == queue[1]
             player2 == queue[2]
             room == rooms[gameId] \cup {player1, player2}
         IN  /\ matches' = matches + 1
             /\ waitingPlayers' = SubSeq(queue, 3, Len(queue))
             /\ activeGames' =
                    [id \in DOMAIN activeGames \cup {gameId} |->
                        IF id = gameId
                        THEN [players |-> <<player1, player2>>, state |-> "starting"]
                        ELSE activeGames[id]]
             /\ rooms' = [rooms EXCEPT ![gameId] = room]
             /\ out' = Append(emitted,
                    Emit("gameMatched", room,
                         [gameId |-> gameId, countdown |-> COUNTDOWN,
                          players |-> << [id |-> player1, team |-> "A"],
                                         [id |-> player2, team |-> "B"] >>]))
             /\ timers' = [timers EXCEPT ![gameId] = @ + 1]
    ELSE /\ waitingPlayers' = queue
         /\ out' = emitted
         /\ UNCHANGED <<activeGames, rooms, timers, matches>>

\* The join handler emitting matchmakingStatus ahead of waitingPlayers.push: the
\* status describes the queue as the sender found it.
JoinMatchmaking_StatusBeforePush(socket, gameId) ==
    /\ sockets[socket] = "connected"
    /\ LET team == IF Len(waitingPlayers) % 2 = 0 THEN "A" ELSE "B"
           queue == Append(waitingPlayers, socket)
           status == Emit("matchmakingStatus", {socket},
                          [position |-> indexOf(waitingPlayers, socket) + 1,
                           playersWaiting |-> Len(waitingPlayers)])
       IN  /\ data' = [data EXCEPT ![socket].team = team]
           /\ matchPlayers(queue, gameId, <<status>>)
    /\ UNCHANGED <<sockets, inFlight>>

\* socket.on('joinMatchmaking')
JoinMatchmaking(socket, gameId) ==
    /\ sockets[socket] = "connected"
    /\ LET team == IF Len(waitingPlayers) % 2 = 0 THEN "A" ELSE "B"
           queue == Append(waitingPlayers, socket)
           status == Emit("matchmakingStatus", {socket},
                          [position |-> indexOf(queue, socket) + 1,
                           playersWaiting |-> Len(queue)])
       IN  /\ data' = [data EXCEPT ![socket].team = team]
           /\ matchPlayers(queue, gameId, <<status>>)
    /\ UNCHANGED <<sockets, inFlight>>

\* The cancel handler with slice(index, 1) for splice(index, 1): slice copies and
\* leaves the queue as it was.
CancelMatchmaking_Slice(socket) ==
    /\ sockets[socket] = "connected"
    /\ waitingPlayers' = waitingPlayers
    /\ out' = <<>>
    /\ UNCHANGED <<matches, sockets, activeGames, rooms, timers, data, inFlight>>

\* The cancel handler without its `index !== -1` test: splice(-1, 1) removes
\* the last entry of the queue.
CancelMatchmaking_NoTest(socket) ==
    /\ sockets[socket] = "connected"
    /\ LET index == indexOf(waitingPlayers, socket)
       IN  waitingPlayers' =
              IF index # -1 THEN splice(waitingPlayers, index)
              ELSE SubSeq(waitingPlayers, 1, Len(waitingPlayers) - 1)
    /\ out' = <<>>
    /\ UNCHANGED <<matches, sockets, activeGames, rooms, timers, data, inFlight>>

\* socket.on('cancelMatchmaking')
CancelMatchmaking(socket) ==
    /\ sockets[socket] = "connected"
    /\ LET index == indexOf(waitingPlayers, socket)
       IN  waitingPlayers' = IF index # -1 THEN splice(waitingPlayers, index)
                             ELSE waitingPlayers
    /\ out' = <<>>
    /\ UNCHANGED <<matches, sockets, activeGames, rooms, timers, data, inFlight>>

\* The setTimeout callback of matchPlayers, for the game id it closed over: what
\* it does to the server's state.
gameStartTimeout(gameId) ==
    /\ timers[gameId] > 0
    /\ timers' = [timers EXCEPT ![gameId] = @ - 1]
    /\ IF gameId \in DOMAIN activeGames
       THEN /\ activeGames' = [activeGames EXCEPT ![gameId].state = "active"]
            /\ out' = <<Emit("gameStart", rooms[gameId], <<>>)>>
       ELSE /\ out' = <<>>
            /\ UNCHANGED activeGames
    /\ UNCHANGED <<matches, sockets, waitingPlayers, rooms, data>>

\* The callback; what the clients send once they have gameStart is left to the
\* relay actions.
CountdownTimer(gameId) == gameStartTimeout(gameId) /\ UNCHANGED inFlight

\* disconnectGame with the two emissions of the one-player branch exchanged:
\* gameEnded ahead of playerLeft.
disconnectGame_EndedFirst(socket, gameId, roomsAfter) ==
    LET game == activeGames[gameId]
        playerIndex == indexOf(game.players, socket)
        players == splice(game.players, playerIndex)
        left == Emit("playerLeft", roomsAfter[gameId] \ {socket}, socket)
    IN  IF playerIndex = -1 THEN [game |-> game, emitted |-> <<>>]
        ELSE IF Len(players) = 0
             THEN [game |-> [game EXCEPT !.players = players], emitted |-> <<left>>]
        ELSE IF Len(players) = 1
             THEN [game |-> [game EXCEPT !.players = players],
                   emitted |-> <<Emit("gameEnded", roomsAfter[gameId],
                                      [reason |-> "opponent_left",
                                       winnerId |-> players[1]]),
                                 left>>]
        ELSE [game |-> [game EXCEPT !.players = players], emitted |-> <<left>>]

\* One iteration of the disconnect handler's loop over activeGames, on the room
\* membership as the library left it: the game afterwards (players emptied when
\* the game is deleted) and what the iteration emitted.
disconnectGame(socket, gameId, roomsAfter) ==
    LET game == activeGames[gameId]
        playerIndex == indexOf(game.players, socket)
        players == splice(game.players, playerIndex)
        left == Emit("playerLeft", roomsAfter[gameId] \ {socket}, socket)
    IN  IF playerIndex = -1 THEN [game |-> game, emitted |-> <<>>]
        ELSE IF Len(players) = 0
             THEN [game |-> [game EXCEPT !.players = players], emitted |-> <<left>>]
        ELSE IF Len(players) = 1
             THEN [game |-> [game EXCEPT !.players = players],
                   emitted |-> <<left,
                                 Emit("gameEnded", roomsAfter[gameId],
                                      [reason |-> "opponent_left",
                                       winnerId |-> players[1]])>>]
        ELSE [game |-> [game EXCEPT !.players = players], emitted |-> <<left>>]

\* What the loop over activeGames emits, game after game in key order.
RECURSIVE disconnectEmitted(_, _, _)
disconnectEmitted(socket, gameId, roomsAfter) ==
    IF gameId > NumGameIds THEN <<>>
    ELSE (IF gameId \in DOMAIN activeGames
          THEN disconnectGame(socket, gameId, roomsAfter).emitted
          ELSE <<>>) \o disconnectEmitted(socket, gameId + 1, roomsAfter)

\* The disconnect handler without `delete activeGames[gameId]`: a game whose
\* players list became empty stays in activeGames.
Disconnect_KeepsEmptyGame(socket) ==
    /\ sockets[socket] = "connected"
    /\ sockets' = [sockets EXCEPT ![socket] = "disconnected"]
    /\ rooms' = [id \in GameIds |-> rooms[id] \ {socket}]
    /\ LET queueIndex == indexOf(waitingPlayers, socket)
       IN  waitingPlayers' = IF queueIndex # -1 THEN splice(waitingPlayers, queueIndex)
                             ELSE waitingPlayers
    /\ activeGames' = [id \in DOMAIN activeGames |->
                            disconnectGame(socket, id, rooms').game]
    /\ out' = disconnectEmitted(socket, 1, rooms')
    /\ UNCHANGED <<matches, timers, data, inFlight>>

\* The disconnect handler without its removal from the waiting queue.
Disconnect_KeepsQueued(socket) ==
    /\ sockets[socket] = "connected"
    /\ sockets' = [sockets EXCEPT ![socket] = "disconnected"]
    /\ rooms' = [id \in GameIds |-> rooms[id] \ {socket}]
    /\ waitingPlayers' = waitingPlayers
    /\ LET kept == {id \in DOMAIN activeGames :
                        Len(disconnectGame(socket, id, rooms').game.players) # 0}
       IN  activeGames' = [id \in kept |-> disconnectGame(socket, id, rooms').game]
    /\ out' = disconnectEmitted(socket, 1, rooms')
    /\ UNCHANGED <<matches, timers, data, inFlight>>

\* socket.on('disconnect')
Disconnect(socket) ==
    /\ sockets[socket] = "connected"
    /\ sockets' = [sockets EXCEPT ![socket] = "disconnected"]
    /\ rooms' = [id \in GameIds |-> rooms[id] \ {socket}]
    /\ LET queueIndex == indexOf(waitingPlayers, socket)
       IN  waitingPlayers' = IF queueIndex # -1 THEN splice(waitingPlayers, queueIndex)
                             ELSE waitingPlayers
    /\ LET kept == {id \in DOMAIN activeGames :
                        Len(disconnectGame(socket, id, rooms').game.players) # 0}
       IN  activeGames' = [id \in kept |-> disconnectGame(socket, id, rooms').game]
    /\ out' = disconnectEmitted(socket, 1, rooms')
    /\ UNCHANGED <<matches, timers, data, inFlight>>

\* reduceHealth without the clamp of line 215.
reduceHealth_NoClamp(health, damage) ==
    IF health < 0 THEN NaN
    ELSE health - damage

\* targetSocket.data.health -= damage; if (health < 0) health = 0.
\* Stored numbers are never negative, so the negative values are the two
\* non-numbers: undefined - damage is NaN, NaN - damage is NaN, NaN < 0 is false.
reduceHealth(health, damage) ==
    IF health < 0 THEN NaN
    ELSE IF health - damage < 0 THEN 0
    ELSE health - damage

\* health <= 0 in JavaScript: false for NaN.
isDead(health) == health # NaN /\ health # Undefined /\ health <= 0

\* The playersData object of playerJoin: the other sockets of the room whose
\* data.position is set, each with what is stored on it.
currentPlayers(socket, gameId) ==
    LET others == {playerId \in rooms[gameId] :
                      /\ playerId # socket
                      /\ sockets[playerId] = "connected"
                      /\ data[playerId].position # Undefined}
    IN  [playerId \in others |->
            [id |-> playerId,
             position |-> data[playerId].position,
             rotation |-> data[playerId].rotation,
             health |-> data[playerId].health,
             team |-> data[playerId].team]]

\* socket.on('playerJoin'): what the handler does to the server's state.
playerJoinHandler(socket, playerData) ==
    /\ sockets[socket] = "connected"
    /\ LET gameId == findGame(socket)
           own == [id |-> socket,
                   position |-> playerData.position,
                   rotation |-> playerData.rotation,
                   health |-> INITIAL_HEALTH,
                   team |-> data[socket].team]
       IN  IF gameId = NoGameId
           THEN /\ out' = <<>>
                /\ UNCHANGED data
           ELSE /\ data' = [data EXCEPT ![socket].position = playerData.position,
                                        ![socket].rotation = playerData.rotation,
                                        ![socket].health = INITIAL_HEALTH]
                /\ out' = << Emit("playerInitialized", {socket}, own),
                             Emit("currentPlayers", {socket},
                                  currentPlayers(socket, gameId)),
                             Emit("playerJoined", rooms[gameId] \ {socket}, own) >>
    /\ UNCHANGED <<matches, sockets, waitingPlayers, activeGames, rooms, timers>>

\* A playerJoin that a client sends whenever it chooses.
PlayerJoin(socket, playerData) ==
    playerJoinHandler(socket, playerData) /\ UNCHANGED inFlight

\* socket.on('playerMove')
PlayerMove(socket, moveData) ==
    /\ sockets[socket] = "connected"
    /\ data' = [data EXCEPT ![socket].position = moveData.position,
                            ![socket].rotation = moveData.rotation]
    /\ LET gameId == findGame(socket)
       IN  out' = IF gameId = NoGameId THEN <<>>
                  ELSE << Emit("playerMoved", rooms[gameId] \ {socket},
                               [id |-> socket,
                                position |-> moveData.position,
                                rotation |-> moveData.rotation]) >>
    /\ UNCHANGED <<matches, sockets, waitingPlayers, activeGames, rooms,
                   timers, inFlight>>

\* socket.on('playerShoot')
PlayerShoot(socket, arrowData) ==
    /\ sockets[socket] = "connected"
    /\ LET gameId == findGame(socket)
       IN  out' = IF gameId = NoGameId THEN <<>>
                  ELSE << Emit("playerShoot", rooms[gameId] \ {socket},
                               [id |-> socket, arrow |-> arrowData]) >>
    /\ UNCHANGED <<matches, sockets, waitingPlayers, activeGames, rooms,
                   timers, data, inFlight>>

\* The hit handler looking the target up among every socket it ever saw, not
\* among the connected ones.
PlayerHit_AnyTarget(socket, targetId, damage) ==
    /\ sockets[socket] = "connected"
    /\ LET health == reduceHealth(data[targetId].health, damage)
           gameId == findGame(socket)
       IN  /\ data' = [data EXCEPT ![targetId].health = health]
           /\ out' =
                IF gameId = NoGameId THEN <<>>
                ELSE << Emit("healthUpdate", rooms[gameId],
                             [id |-> targetId, health |-> health]) >>
                     \o (IF isDead(health)
                         THEN << Emit("playerDeath", rooms[gameId],
                                      [id |-> targetId, killerId |-> socket]) >>
                         ELSE <<>>)
    /\ UNCHANGED <<matches, sockets, waitingPlayers, activeGames, rooms,
                   timers, inFlight>>

\* socket.on('playerHit'): io.sockets.sockets.get(targetId) finds the connected
\* sockets only.
PlayerHit(socket, targetId, damage) ==
    /\ sockets[socket] = "connected"
    /\ IF sockets[targetId] = "connected"
       THEN LET health == reduceHealth(data[targetId].health, damage)
                gameId == findGame(socket)
            IN  /\ data' = [data EXCEPT ![targetId].health = health]
                /\ out' =
                     IF gameId = NoGameId THEN <<>>
                     ELSE << Emit("healthUpdate", rooms[gameId],
                                  [id |-> targetId, health |-> health]) >>
                          \o (IF isDead(health)
                              THEN << Emit("playerDeath", rooms[gameId],
                                           [id |-> targetId, killerId |-> socket]) >>
                              ELSE <<>>)
       ELSE /\ out' = <<>>
            /\ UNCHANGED data
    /\ UNCHANGED <<matches, sockets, waitingPlayers, activeGames, rooms,
                   timers, inFlight>>

\* The bound on a run: joinMatchmaking is explored while it creates no session
\* or fewer than maxMatches sessions exist so far.
withinMatches(maxMatches) == Len(waitingPlayers) >= 1 => matches < maxMatches

\* The matchmaking handlers and the countdown: everything that reads or writes
\* the queue, the sessions, the rooms and the timers.
NextLobby ==
    \/ \E socket \in Conns : Connect(socket)
    \/ \E socket \in Conns, gameId \in GameIds :
          withinMatches(MaxMatches) /\ JoinMatchmaking(socket, gameId)
    \/ \E socket \in Conns : CancelMatchmaking(socket)
    \/ \E gameId \in GameIds : CountdownTimer(gameId)
    \/ \E socket \in Conns : Disconnect(socket)

SpecLobby == Init /\ [][NextLobby]_vars

\* Every handler, with the game ids drawn from RelayGameIds.
Next ==
    \/ \E socket \in Conns : Connect(socket)
    \/ \E socket \in Conns, gameId \in RelayGameIds :
          withinMatches(MaxRelayMatches) /\ JoinMatchmaking(socket, gameId)
    \/ \E socket \in Conns : CancelMatchmaking(socket)
    \/ \E gameId \in RelayGameIds : CountdownTimer(gameId)
    \/ \E socket \in Conns, position \in Positions, rotation \in Rotations :
          PlayerJoin(socket, [position |-> position, rotation |-> rotation])
    \/ \E socket \in Conns, position \in Positions, rotation \in Rotations :
          PlayerMove(socket, [position |-> position, rotation |-> rotation])
    \/ \E socket \in Conns, arrowData \in Arrows : PlayerShoot(socket, arrowData)
    \/ \E socket \in Conns, targetId \in Conns, damage \in Damages :
          PlayerHit(socket, targetId, damage)
    \/ \E socket \in Conns : Disconnect(socket)

Spec == Init /\ [][Next]_vars

\* ------------------------------------------------- the repository's client
\* src/js/lobby.js sends joinMatchmaking from the Find Match button and
\* cancelMatchmaking from the Cancel button. Find Match is shown at start, after
\* Cancel and after gameEnded, and hidden by a click and by gameMatched; Cancel
\* is shown from the click on Find Match until Cancel or gameMatched. Every event
\* is delivered at once here, so the server's state tells which button is shown.
findMatchShown(socket) ==
    /\ ~includes(waitingPlayers, socket)
    /\ \A id \in gamesOf(socket) : Len(activeGames[id].players) = 1

cancelMatchShown(socket) == includes(waitingPlayers, socket)

\* The matchmaking handlers, driven by clients that use the lobby's buttons.
NextLobbyClient ==
    \/ \E socket \in Conns : Connect(socket)
    \/ \E socket \in Conns, gameId \in GameIds :
          /\ withinMatches(MaxMatches)
          /\ findMatchShown(socket)
          /\ JoinMatchmaking(socket, gameId)
    \/ \E socket \in Conns : cancelMatchShown(socket) /\ CancelMatchmaking(socket)
    \/ \E gameId \in GameIds : CountdownTimer(gameId)
    \/ \E socket \in Conns : Disconnect(socket)

SpecLobbyClient == Init /\ [][NextLobbyClient]_vars

\* Every handler, the matchmaking events sent from the lobby's buttons and the
\* relay events sent by any connected client.
NextClient ==
    \/ \E socket \in Conns : Connect(socket)
    \/ \E socket \in Conns, gameId \in RelayGameIds :
          /\ withinMatches(MaxRelayMatches)
          /\ findMatchShown(socket)
          /\ JoinMatchmaking(socket, gameId)
    \/ \E socket \in Conns : cancelMatchShown(socket) /\ CancelMatchmaking(socket)
    \/ \E gameId \in RelayGameIds : CountdownTimer(gameId)
    \/ \E socket \in Conns, position \in Positions, rotation \in Rotations :
          PlayerJoin(socket, [position |-> position, rotation |-> rotation])
    \/ \E socket \in Conns, position \in Positions, rotation \in Rotations :
          PlayerMove(socket, [position |-> position, rotation |-> rotation])
    \/ \E socket \in Conns, arrowData \in Arrows : PlayerShoot(socket, arrowData)
    \/ \E socket \in Conns, targetId \in Conns, damage \in Damages :
          PlayerHit(socket, targetId, damage)
    \/ \E socket \in Conns : Disconnect(socket)

SpecClient == Init /\ [][NextClient]_vars

\* The lobby's clients over two game ids, with the relay handlers that route by
\* session and store no health.
NextRoute ==
    \/ \E socket \in Conns : Connect(socket)
    \/ \E socket \in Conns, gameId \in GameIds :
          /\ withinMatches(MaxRouteMatches)
          /\ findMatchShown(socket)
          /\ JoinMatchmaking(socket, gameId)
    \/ \E socket \in Conns : cancelMatchShown(socket) /\ CancelMatchmaking(socket)
    \/ \E gameId \in GameIds : CountdownTimer(gameId)
    \/ \E socket \in Conns, position \in Positions, rotation \in Rotations :
          PlayerJoin(socket, [position |-> position, rotation |-> rotation])
    \/ \E socket \in Conns, position \in Positions, rotation \in Rotations :
          PlayerMove(socket, [position |-> position, rotation |-> rotation])
    \/ \E socket \in Conns, arrowData \in Arrows : PlayerShoot(socket, arrowData)
    \/ \E socket \in Conns : Disconnect(socket)

SpecRoute == Init /\ [][NextRoute]_vars

\* ------------------------------------------------- the repository's game client
\* The payload of the playerJoin that the lobby emits on gameStart: position
\* [0, 0, 0] and rotation 0, one fixed value of the abstract payloads.
lobbyPlayerData == [position |-> 1, rotation |-> 1]

\* setupNetworking opens the socket and registers two listeners for gameStart on
\* it: the lobby's, in setupLobby(socket), and after it its own, which calls
\* joinGame(). Both run for every gameStart, in that order, and each emits one
\* playerJoin; cameraData is what joinGame() reads off the camera.
gameStartListeners(cameraData) == <<lobbyPlayerData, cameraData>>

\* The setTimeout callback with the repository's client on every connection;
\* gameStart is delivered at once and the listeners run.
GameStart(gameId) ==
    /\ gameStartTimeout(gameId)
    /\ \E cameraData \in [position : Positions, rotation : Rotations] :
          inFlight' =
             [c \in DOMAIN inFlight |->
                 IF gameId \in DOMAIN activeGames /\ c \in rooms[gameId]
                 THEN inFlight[c] \o gameStartListeners(cameraData)
                 ELSE inFlight[c]]

\* The server handles the oldest playerJoin in flight from socket.
ReceivePlayerJoin(socket) ==
    /\ inFlight[socket] # <<>>
    /\ playerJoinHandler(socket, Head(inFlight[socket]))
    /\ inFlight' = [inFlight EXCEPT ![socket] = Tail(@)]

\* The clients of the repository: the lobby's buttons, and playerJoin sent on
\* gameStart and at no other moment.
NextGame ==
    \/ \E socket \in Conns : Connect(socket)
    \/ \E socket \in Conns, gameId \in GameIds :
          /\ withinMatches(MaxRouteMatches)
          /\ findMatchShown(socket)
          /\ JoinMatchmaking(socket, gameId)
    \/ \E socket \in Conns : cancelMatchShown(socket) /\ CancelMatchmaking(socket)
    \/ \E gameId \in GameIds : GameStart(gameId)
    \/ \E socket \in Conns : ReceivePlayerJoin(socket)
    \/ \E socket \in Conns : Disconnect(socket)

SpecGame == Init /\ [][NextGame]_vars

\* ------------------------------------------------- join-only runs
\* The server after construction, about to serve NumJoinConns connections.
InitJoins ==
    /\ sockets = [c \in JoinConns |-> "new"]
    /\ waitingPlayers = <<>>
    /\ activeGames = [id \in {} |-> 0]
    /\ rooms = [id \in GameIds |-> {}]
    /\ timers = [id \in GameIds |-> 0]
    /\ data = [c \in JoinConns |-> [team |-> "undefined", position |-> Undefined,
                                     rotation |-> Undefined, health |-> Undefined]]
    /\ out = <<>>
    /\ inFlight = [c \in DOMAIN sockets |-> <<>>]
    /\ matches = 0

\* socket has not sent joinMatchmaking: socket.data.team is assigned by the
\* handler's first statement and by nothing else.
notJoined(socket) == data[socket].team = "undefined"

\* joinMatchmaking events from distinct connections, and the countdowns of the
\* sessions they create.
NextJoins ==
    \/ \E socket \in JoinConns : Connect(socket)
    \/ \E socket \in JoinConns, gameId \in GameIds :
            notJoined(socket) /\ JoinMatchmaking(socket, gameId)
    \/ \E gameId \in GameIds : CountdownTimer(gameId)

SpecJoins == InitJoins /\ [][NextJoins]_vars

\* ------------------------------------------------- runs with several damages
\* hitData.damage is whatever the client sends. Pairing, playerJoin, playerHit
\* and disconnect, explored while the stored health stays within MaxHitHealth;
\* the countdown, which the three handlers do not read, is left out.
NextHits ==
    \/ \E socket \in Conns : Connect(socket)
    \/ \E socket \in Conns, gameId \in RelayGameIds :
          withinMatches(MaxRelayMatches) /\ JoinMatchmaking(socket, gameId)
    \/ \E socket \in Conns, position \in Positions, rotation \in Rotations :
          PlayerJoin(socket, [position |-> position, rotation |-> rotation])
    \/ \E socket \in Conns, targetId \in Conns, damage \in HitDamages :
          /\ sockets[targetId] = "connected"
                => reduceHealth(data[targetId].health, damage) <= MaxHitHealth
          /\ PlayerHit(socket, targetId, damage)
    \/ \E socket \in Conns : Disconnect(socket)

SpecHits == Init /\ [][NextHits]_vars

\* The join-only runs with connections that leave; setTimeout(..., 5000): a
\* timer that was set fires.
NextLeave ==
    \/ NextJoins
    \/ \E socket \in JoinConns : Disconnect(socket)

SpecLeaveFair ==
    /\ InitJoins
    /\ [][NextLeave]_vars
    /\ \A gameId \in GameIds : WF_vars(CountdownTimer(gameId))

\* ================================================================ claims

\* The places of the events named ev in what a handler emitted.
emittedIn(msgs, ev) == {i \in 1..Len(msgs) : msgs[i].ev = ev}

\* C1: every session present in activeGames has exactly two players (a session
\* is gone from activeGames once the disconnect of one of its members is handled).
C1_SessionsHaveTwoPlayers ==
    \A id \in DOMAIN activeGames : Len(activeGames[id].players) = 2

\* C2: a countdown that fires for a session that lost a member while 'starting'
\* is skipped: it emits nothing and the session is not set to 'active'. Stated for
\* the sessions whose other member is still connected.
C2_CountdownSkippedAfterLeave ==
    [][\A id \in GameIds :
          ( /\ id \in DOMAIN activeGames
            /\ activeGames[id].state = "starting"
            /\ Len(activeGames[id].players) = 1
            /\ sockets[activeGames[id].players[1]] = "connected"
            /\ CountdownTimer(id) )
          => ( /\ out' = <<>>
               /\ id \in DOMAIN activeGames' => activeGames'[id].state # "active" )
      ]_vars

\* C3: a connection is in the players list of at most one session.
C3_AtMostOneSession ==
    \A socket \in Conns : Cardinality(gamesOf(socket)) <= 1

\* C4: no connection is both in waitingPlayers and a member of a session.
C4_QueuedOrInSession ==
    \A socket \in Conns :
        ~(includes(waitingPlayers, socket) /\ gamesOf(socket) # {})

\* C5: the two players of a session matchPlayers created are distinct connections.
C5_PlayersDistinct ==
    \A id \in DOMAIN activeGames :
        Len(activeGames[id].players) = 2
            => activeGames[id].players[1] # activeGames[id].players[2]

\* A playerHit of socket on targetId, a connected socket.
hits(socket, targetId) ==
    /\ sockets[targetId] = "connected"
    /\ \E damage \in Damages : PlayerHit(socket, targetId, damage)

\* C6: a playerHit emits playerDeath exactly when it takes the target's stored
\* health from above 0 to 0, with the sender as killerId. Stated for the hits of
\* a session member on a member of its session.
C6_DeathOnlyOnTransition ==
    [][\A socket \in Conns, targetId \in Conns :
          ( /\ hits(socket, targetId)
            /\ findGame(socket) # NoGameId
            /\ includes(activeGames[findGame(socket)].players, targetId) )
          => ( /\ emittedIn(out', "playerDeath") # {}
                    <=> (data[targetId].health > 0 /\ data'[targetId].health = 0)
               /\ \A i \in emittedIn(out', "playerDeath") :
                    out'[i].payload = [id |-> targetId, killerId |-> socket] )
      ]_vars

\* C7: a playerHit on a connected socket that is not a member of the sender's
\* session changes no stored health and emits no healthUpdate and no playerDeath.
C7_ForeignTargetIgnored ==
    [][\A socket \in Conns, targetId \in Conns :
          ( /\ hits(socket, targetId)
            /\ findGame(socket) # NoGameId
            /\ ~includes(activeGames[findGame(socket)].players, targetId) )
          => ( /\ data' = data
               /\ emittedIn(out', "healthUpdate") = {}
               /\ emittedIn(out', "playerDeath") = {} )
      ]_vars

\* Some relay event (playerJoin, playerMove, playerShoot, playerHit) of socket.
relayEvent(socket) ==
    \/ \E position \in Positions, rotation \in Rotations :
          \/ PlayerJoin(socket, [position |-> position, rotation |-> rotation])
          \/ PlayerMove(socket, [position |-> position, rotation |-> rotation])
    \/ \E arrowData \in Arrows : PlayerShoot(socket, arrowData)
    \/ \E targetId \in Conns, damage \in Damages : PlayerHit(socket, targetId, damage)

\* C8: a relay event of a connection that is in no session changes no stored
\* position, rotation or health and emits nothing.
C8_NoSessionDropped ==
    [][\A socket \in Conns :
          (findGame(socket) = NoGameId /\ relayEvent(socket))
          => (data' = data /\ out' = <<>>)
      ]_vars

\* C9: once a member of a session has disconnected, a playerHit of the remaining
\* member on itself or on the departed connection changes no stored health and
\* emits no healthUpdate and no playerDeath. Stated for a target whose health
\* playerJoin has set.
C9_HitAfterLeaveIgnored ==
    [][\A socket \in Conns, targetId \in Conns, damage \in Damages :
          ( /\ PlayerHit(socket, targetId, damage)
            /\ findGame(socket) # NoGameId
            /\ activeGames[findGame(socket)].players = <<socket>>
            /\ data[targetId].health >= 0
            /\ (targetId = socket \/ sockets[targetId] = "disconnected") )
          => ( /\ data' = data
               /\ emittedIn(out', "healthUpdate") = {}
               /\ emittedIn(out', "playerDeath") = {} )
      ]_vars

\* C10: the disconnect of the first of a session's two members emits exactly one
\* gameEnded, with reason 'opponent_left' and the remaining member as winnerId,
\* delivered to the remaining member and to nobody else; the disconnect of the
\* last member emits none. Stated for a connection that is in one session.
C10_OneGameEnded ==
    [][\A socket \in Conns, id \in GameIds :
          (gamesOf(socket) = {id} /\ Disconnect(socket))
          => LET players == activeGames[id].players
                 remaining == {players[i] : i \in 1..Len(players)} \ {socket}
                 ended == emittedIn(out', "gameEnded")
             IN  IF Len(players) = 2
                 THEN /\ Cardinality(ended) = 1
                      /\ \A i \in ended :
                            /\ out'[i].payload.reason = "opponent_left"
                            /\ out'[i].payload.winnerId \in remaining
                            /\ out'[i].to = {out'[i].payload.winnerId}
                 ELSE ended = {}
      ]_vars

\* C11: when a member of a session of two distinct connections disconnects, the
\* other member is sent playerLeft carrying the leaver's id and, after it,
\* gameEnded naming the other member as winner; no playerLeft of the disconnect
\* is sent to the leaver.
C11_LeftThenEnded ==
    [][\A socket \in Conns, id \in GameIds :
          ( /\ Disconnect(socket)
            /\ id \in gamesOf(socket)
            /\ Len(activeGames[id].players) = 2
            /\ activeGames[id].players[1] # activeGames[id].players[2] )
          => LET players == activeGames[id].players
                 other == IF players[1] = socket THEN players[2] ELSE players[1]
             IN  /\ \E i \in emittedIn(out', "playerLeft"),
                       j \in emittedIn(out', "gameEnded") :
                        /\ i < j
                        /\ out'[i].payload = socket
                        /\ other \in out'[i].to
                        /\ out'[j].payload.winnerId = other
                        /\ other \in out'[j].to
                 /\ \A i \in emittedIn(out', "playerLeft") : socket \notin out'[i].to
      ]_vars

\* A disconnect has just sent the remaining member playerLeft and then gameEnded.
C11_Witness ==
    \E socket \in Conns, other \in Conns :
        /\ socket # other
        /\ sockets[socket] = "disconnected"
        /\ sockets[other] = "connected"
        /\ out = << Emit("playerLeft", {other}, socket),
                    Emit("gameEnded", {other},
                         [reason |-> "opponent_left", winnerId |-> other]) >>

\* C12: the disconnect of the only member left in a session deletes the session
\* from activeGames and emits no gameEnded for it: the gameEnded events of a
\* disconnect are one for each two-player session the connection was in.
C12_LastMemberDeletes ==
    [][\A socket \in Conns :
          Disconnect(socket)
          => /\ \A id \in DOMAIN activeGames :
                    activeGames[id].players = <<socket>> => id \notin DOMAIN activeGames'
             /\ Cardinality(emittedIn(out', "gameEnded"))
                    = Cardinality({id \in gamesOf(socket) :
                                      Len(activeGames[id].players) = 2})
      ]_vars

\* The last member of the only session has just disconnected: the session is
\* gone and the handler emitted its playerLeft, to an empty room, and nothing else.
C12_Witness ==
    \E socket \in Conns :
        /\ sockets[socket] = "disconnected"
        /\ DOMAIN activeGames = {}
        /\ out = << Emit("playerLeft", {}, socket) >>

\* C13: joinMatchmaking events from distinct connections pair in arrival order.
\* A join that finds nobody waiting leaves the sender waiting alone and creates
\* no session; a join that finds a connection waiting creates a session with
\* the waiting connection as player1 (team A) and the sender as player2 (team B)
\* and leaves nobody waiting, so the N-th and (N+1)-th arrivals, N odd, are paired.
C13_PairedInArrivalOrder ==
    [][\A socket \in JoinConns, gameId \in GameIds :
          JoinMatchmaking(socket, gameId)
          => IF waitingPlayers = <<>>
             THEN /\ waitingPlayers' = <<socket>>
                  /\ activeGames' = activeGames
             ELSE /\ Len(waitingPlayers) = 1
                  /\ waitingPlayers' = <<>>
                  /\ gameId \in DOMAIN activeGames'
                  /\ activeGames'[gameId].players = <<waitingPlayers[1], socket>>
                  /\ out'[Len(out')].ev = "gameMatched"
                  /\ out'[Len(out')].payload.players
                        = << [id |-> waitingPlayers[1], team |-> "A"],
                             [id |-> socket, team |-> "B"] >>
                  /\ \A id \in DOMAIN activeGames \ {gameId} :
                        /\ id \in DOMAIN activeGames'
                        /\ activeGames'[id] = activeGames[id]
      ]_vars

\* Four connections joined one after the other and two sessions hold them, the
\* fourth arrival having just been paired with the third.
C13_Witness ==
    \E id \in GameIds, other \in GameIds :
        /\ id # other
        /\ DOMAIN activeGames = {id, other}
        /\ LET first == activeGames[other].players
               second == activeGames[id].players
           IN  /\ Cardinality({first[1], first[2], second[1], second[2]}) = 4
               /\ out[Len(out)] = Emit("gameMatched", {second[1], second[2]},
                        [gameId |-> id, countdown |-> COUNTDOWN,
                         players |-> << [id |-> second[1], team |-> "A"],
                                        [id |-> second[2], team |-> "B"] >>])
        /\ waitingPlayers = <<>>

\* C14: right after matchPlayers creates a session, the two connections it
\* announced in gameMatched are in the session's players list and in its room,
\* and neither is in waitingPlayers.
C14_PairedLeaveQueue ==
    [][\A socket \in Conns, gameId \in GameIds :
          (JoinMatchmaking(socket, gameId) /\ matches' # matches)
          => /\ gameId \in DOMAIN activeGames'
             /\ out'[Len(out')].ev = "gameMatched"
             /\ Len(activeGames'[gameId].players) = 2
             /\ \A i \in 1..2 :
                    LET player == out'[Len(out')].payload.players[i].id
                    IN  /\ activeGames'[gameId].players[i] = player
                        /\ player \in rooms'[gameId]
                        /\ player \in out'[Len(out')].to
                        /\ ~includes(waitingPlayers', player)
      ]_vars

\* A session has just been created: it is 'starting', its two players are in its
\* room and the queue does not hold them.
C14_Witness ==
    \E id \in DOMAIN activeGames :
        /\ Len(out) = 2
        /\ out[2].ev = "gameMatched"
        /\ out[2].payload.gameId = id
        /\ activeGames[id].state = "starting"
        /\ Len(activeGames[id].players) = 2
        /\ activeGames[id].players[1] # activeGames[id].players[2]
        /\ \A i \in 1..2 :
              /\ activeGames[id].players[i] \in rooms[id]
              /\ ~includes(waitingPlayers, activeGames[id].players[i])

C16_DisconnectedNeverPaired ==
    [][ /\ \A i \in 1..Len(waitingPlayers') :
              sockets'[waitingPlayers'[i]] = "connected"
        /\ \A socket \in Conns, gameId \in GameIds :
              (JoinMatchmaking(socket, gameId) /\ matches' # matches)
              => \A i \in 1..Len(activeGames'[gameId].players) :
                    sockets'[activeGames'[gameId].players[i]] = "connected"
      ]_vars

\* A connection joined matchmaking and disconnected without ever being paired,
\* and the first session has just been created without it.
C16_Witness ==
    /\ matches = 1
    /\ Len(out) = 2
    /\ out[2].ev = "gameMatched"
    /\ \E socket \in Conns :
          /\ sockets[socket] = "disconnected"
          /\ data[socket].team # "undefined"
          /\ gamesOf(socket) = {}
          /\ \A i \in 1..2 : out[2].payload.players[i].id # socket

\* arr without the entries equal to x, the others in their order.
without(arr, x) == SelectSeq(arr, LAMBDA y : y # x)

\* The queues of at most MaxQueue connections, no connection twice.
Queues ==
    {queue \in UNION {[1..n -> Conns] : n \in 0..MaxQueue} :
        \A i \in 1..Len(queue), j \in 1..Len(queue) : i # j => queue[i] # queue[j]}

\* C17: cancelMatchmaking or disconnect of a queued connection removes that
\* connection from waitingPlayers and leaves the others in their order; the
\* removal the two handlers share, indexOf then splice, does so on every queue.
C17_RemovesOnlySender ==
    [][\A socket \in Conns :
          ( /\ includes(waitingPlayers, socket)
            /\ CancelMatchmaking(socket) \/ Disconnect(socket) )
          => /\ waitingPlayers' = without(waitingPlayers, socket)
             /\ \A queue \in Queues :
                    includes(queue, socket)
                    => splice(queue, indexOf(queue, socket)) = without(queue, socket)
      ]_vars

\* The one connection there is joined matchmaking and has just cancelled.
C17_Witness ==
    /\ waitingPlayers = <<>>
    /\ out = <<>>
    /\ matches = 0
    /\ sockets[1] = "connected"
    /\ data[1].team # "undefined"
    /\ \A socket \in Conns \ {1} : sockets[socket] = "new"

\* C18: cancelMatchmaking emits nothing; sent by a connection that is not in
\* waitingPlayers it changes nothing, and after any cancelMatchmaking the sender
\* is not in waitingPlayers, so that a second one changes nothing.
C18_CancelIdempotent ==
    [][\A socket \in Conns :
          CancelMatchmaking(socket)
          => /\ out' = <<>>
             /\ ~includes(waitingPlayers', socket)
             /\ ~includes(waitingPlayers, socket)
                    => UNCHANGED <<sockets, waitingPlayers, activeGames, rooms,
                                   timers, data, matches>>
      ]_vars

\* A member of a session whose countdown is pending has just sent
\* cancelMatchmaking while another connection waits: every connection is
\* connected and has joined, no timer has fired, and the last handler emitted
\* nothing.
C18_Witness ==
    /\ out = <<>>
    /\ matches = 1
    /\ \A socket \in Conns : sockets[socket] = "connected"
    /\ \E id \in DOMAIN activeGames, waiting \in Conns :
          /\ timers[id] = 1
          /\ Len(activeGames[id].players) = 2
          /\ ~includes(activeGames[id].players, waiting)
          /\ waitingPlayers = <<waiting>>

\* C19: every stored health that has been assigned, and every health a
\* healthUpdate carries, is an integer from 0 to 100.
C19_HealthInRange ==
    /\ \A socket \in Conns :
          data[socket].health # Undefined => data[socket].health \in 0..INITIAL_HEALTH
    /\ \A i \in emittedIn(out, "healthUpdate") :
          out[i].payload.health \in 0..INITIAL_HEALTH

\* C20: a stored health that playerJoin has set changes only in the handling of
\* a playerHit on that connection, and only downwards.
C20_HealthOnlyDecremented ==
    [][\A targetId \in Conns :
          (data[targetId].health >= 0 /\ data'[targetId].health # data[targetId].health)
          => /\ \E socket \in Conns, damage \in Damages :
                    PlayerHit(socket, targetId, damage)
             /\ data'[targetId].health < data[targetId].health
      ]_vars

\* The members of session gameId.
members(gameId) ==
    {activeGames[gameId].players[i] : i \in 1..Len(activeGames[gameId].players)}

\* C21: a playerHit on a target whose stored health is 0 leaves it at 0 and
\* emits a healthUpdate carrying the target's id and health 0, and no hit stores
\* a negative health. Stated for the hits of one member of a session of two
\* connections on the other.
C21_FloorIdempotent ==
    [][\A socket \in Conns, targetId \in Conns, damage \in HitDamages :
          ( /\ socket # targetId
            /\ findGame(socket) # NoGameId
            /\ members(findGame(socket)) = {socket, targetId}
            /\ PlayerHit(socket, targetId, damage) )
          => /\ data'[targetId].health >= 0 \/ data'[targetId].health = NaN
             /\ data[targetId].health = 0
                  => /\ data'[targetId].health = 0
                     /\ \E i \in emittedIn(out', "healthUpdate") :
                           out'[i].payload = [id |-> targetId, health |-> 0]
      ]_vars

\* max(h - d, 0)
maxZero(h, d) == IF h - d > 0 THEN h - d ELSE 0

\* C22: a playerHit with damage d of a session member on a member of its
\* session whose stored health is h stores max(h - d, 0) and emits a healthUpdate
\* {id: target, health: max(h - d, 0)} that reaches every member of the session,
\* the sender included.
C22_HealthUpdateToSession ==
    [][\A socket \in Conns, targetId \in Conns, damage \in HitDamages :
          ( /\ findGame(socket) # NoGameId
            /\ targetId \in members(findGame(socket))
            /\ data[targetId].health >= 0
            /\ PlayerHit(socket, targetId, damage) )
          => LET health == maxZero(data[targetId].health, damage)
             IN  /\ data'[targetId].health = health
                 /\ \E i \in emittedIn(out', "healthUpdate") :
                       /\ out'[i].payload = [id |-> targetId, health |-> health]
                       /\ members(findGame(socket)) \subseteq out'[i].to
                       /\ socket \in out'[i].to
                 /\ Cardinality(emittedIn(out', "healthUpdate")) = 1
      ]_vars

\* A hit of 30 on a member at 100 has just been handled: one healthUpdate with
\* health 70 went to both members of the session, and no playerDeath.
C22_Witness ==
    \E id \in DOMAIN activeGames, targetId \in Conns :
        /\ Cardinality(members(id)) = 2
        /\ targetId \in members(id)
        /\ data[targetId].health = 70
        /\ out = << Emit("healthUpdate", members(id),
                         [id |-> targetId, health |-> 70]) >>

\* C23: a relay event of a connection that is not a member of session S changes
\* no stored position, rotation or health of a member of S and emits nothing to
\* a member of S. Stated for a session whose members have sent playerJoin.
C23_OutsiderCannotInterfere ==
    [][\A socket \in Conns, id \in DOMAIN activeGames :
          ( /\ socket \notin members(id)
            /\ \A member \in members(id) : data[member].health >= 0
            /\ relayEvent(socket) )
          => \A member \in members(id) :
                /\ data'[member] = data[member]
                /\ \A i \in 1..Len(out') : member \notin out'[i].to
      ]_vars

\* C24: a playerHit whose targetId is not a connected socket, one that never
\* connected or one that disconnected, changes nothing and emits nothing.
C24_UnknownTargetDropped ==
    [][\A socket \in Conns, targetId \in Conns, damage \in HitDamages :
          (sockets[targetId] # "connected" /\ PlayerHit(socket, targetId, damage))
          => /\ out' = <<>>
             /\ UNCHANGED <<sockets, waitingPlayers, activeGames, rooms, timers,
                            data, matches>>
      ]_vars

\* Both members of the session have sent playerJoin and one of them has just
\* sent a playerHit on an id that never connected: nothing else leaves this
\* state with an empty emission.
C24_Witness ==
    /\ out = <<>>
    /\ sockets = <<"connected", "connected", "new">>
    /\ \E id \in DOMAIN activeGames : members(id) = {1, 2}
    /\ data[1].health = INITIAL_HEALTH
    /\ data[2].health = INITIAL_HEALTH
    /\ data[3].health = Undefined

\* C25: while the session stored under an id is 'starting' with players a and b,
\* then, unless a or b disconnects, its countdown eventually fires, leaving the
\* session 'active' and gameStart sent to a and b. A connection enters the room
\* of an id only in a step that sends it gameMatched for that id, and gameStart
\* goes to the room only: no gameStart reaches a connection ahead of gameMatched.
C25_CountdownFires ==
    /\ \A id \in GameIds, a \in JoinConns, b \in JoinConns :
          ( /\ id \in DOMAIN activeGames
            /\ activeGames[id].state = "starting"
            /\ activeGames[id].players = <<a, b>> )
          ~> ( \/ sockets[a] # "connected"
               \/ sockets[b] # "connected"
               \/ /\ id \in DOMAIN activeGames
                  /\ activeGames[id].state = "active"
                  /\ out = <<Emit("gameStart", rooms[id], <<>>)>>
                  /\ {a, b} \subseteq rooms[id] )
    /\ [][\A id \in GameIds :
             /\ \A socket \in rooms'[id] \ rooms[id] :
                   \E i \in emittedIn(out', "gameMatched") :
                      out'[i].payload.gameId = id /\ socket \in out'[i].to
             /\ CountdownTimer(id)
                   => \A i \in emittedIn(out', "gameStart") :
                         out'[i].to \subseteq rooms[id]
         ]_vars

\* The payloads of playerJoin and playerMove.
StateData == [position : Positions, rotation : Rotations]

\* The connections that share a session with socket.
opponents(socket) == UNION {members(id) : id \in gamesOf(socket)} \ {socket}

\* C26: the currentPlayers sent in reply to the playerJoin of a session member
\* lists exactly the other members of its session whose own playerJoin has been
\* handled (their health is set), and so never the sender.
C26_SnapshotOfJoined ==
    [][\A socket \in Conns, playerData \in StateData :
          (findGame(socket) # NoGameId /\ PlayerJoin(socket, playerData))
          => \A i \in emittedIn(out', "currentPlayers") :
                DOMAIN out'[i].payload
                  = {member \in opponents(socket) : data[member].health # Undefined}
      ]_vars

\* C27: the team a session member is told in playerInitialized, and its
\* opponent in playerJoined, is the team gameMatched listed for it: A for
\* player1, B for player2. Stated for a session of two distinct connections.
C27_TeamAsMatched ==
    [][\A socket \in Conns, playerData \in StateData :
          ( /\ findGame(socket) # NoGameId
            /\ Len(activeGames[findGame(socket)].players) = 2
            /\ Cardinality(members(findGame(socket))) = 2
            /\ PlayerJoin(socket, playerData) )
          => LET players == activeGames[findGame(socket)].players
                 team == IF players[1] = socket THEN "A" ELSE "B"
             IN  \A i \in emittedIn(out', "playerInitialized")
                          \cup emittedIn(out', "playerJoined") :
                    out'[i].payload.team = team
      ]_vars

\* C28: a playerMove of a session member stores the position and rotation sent
\* on the sender and emits one playerMoved, which goes to the connections that
\* share a session with the sender and to nobody else.
C28_MoveToOpponentOnly ==
    [][\A socket \in Conns, moveData \in StateData :
          (findGame(socket) # NoGameId /\ PlayerMove(socket, moveData))
          => /\ data'[socket].position = moveData.position
             /\ data'[socket].rotation = moveData.rotation
             /\ Cardinality(emittedIn(out', "playerMoved")) = 1
             /\ \A i \in emittedIn(out', "playerMoved") :
                    out'[i].to = opponents(socket)
      ]_vars

\* C29: a playerShoot of a session member changes nothing the server stores and
\* emits one playerShoot, which goes to the connections that share a session
\* with the sender and to nobody else.
C29_ShootStateless ==
    [][\A socket \in Conns, arrowData \in Arrows :
          (findGame(socket) # NoGameId /\ PlayerShoot(socket, arrowData))
          => /\ UNCHANGED <<sockets, waitingPlayers, activeGames, rooms, timers, data>>
             /\ Cardinality(emittedIn(out', "playerShoot")) = 1
             /\ \A i \in emittedIn(out', "playerShoot") :
                    out'[i].to = opponents(socket)
      ]_vars

\* C30: a playerJoin of a session member stores the position and rotation sent
\* and health 100 on the sender, sends playerInitialized and currentPlayers to
\* the sender alone, and sends playerJoined, with the sender's id, position,
\* rotation, health 100 and team, to the connections that share a session with
\* the sender and to nobody else.
C30_JoinStoresAndAnnounces ==
    [][\A socket \in Conns, playerData \in StateData :
          (findGame(socket) # NoGameId /\ PlayerJoin(socket, playerData))
          => /\ data'[socket] = [team |-> data[socket].team,
                                 position |-> playerData.position,
                                 rotation |-> playerData.rotation,
                                 health |-> 100]
             /\ Len(out') = 3
             /\ out'[1].ev = "playerInitialized" /\ out'[1].to = {socket}
             /\ out'[2].ev = "currentPlayers" /\ out'[2].to = {socket}
             /\ out'[3] = Emit("playerJoined", opponents(socket),
                               [id |-> socket,
                                position |-> playerData.position,
                                rotation |-> playerData.rotation,
                                health |-> 100,
                                team |-> data[socket].team])
      ]_vars

\* C31: the id under which joinMatchmaking creates a session is not a key of
\* activeGames at that moment, and every session that was in activeGames is
\* still there afterwards, unchanged.
C31_FreshGameId ==
    [][\A socket \in JoinConns, gameId \in GameIds :
          (matches' # matches /\ JoinMatchmaking(socket, gameId))
          => /\ gameId \notin DOMAIN activeGames
             /\ \A id \in DOMAIN activeGames :
                    /\ id \in DOMAIN activeGames'
                    /\ activeGames'[id] = activeGames[id]
      ]_vars

\* C32: a joinMatchmaking that creates a session emits exactly one gameMatched;
\* it carries the id of the new session, countdown 5 and the players list
\* [{player1, A}, {player2, B}], and goes to player1 and player2 and to nobody
\* else.
C32_MatchedToPairOnly ==
    [][\A socket \in JoinConns, gameId \in GameIds :
          (matches' # matches /\ JoinMatchmaking(socket, gameId))
          => LET queue == Append(waitingPlayers, socket)
             IN  /\ Cardinality(emittedIn(out', "gameMatched")) = 1
                 /\ \A i \in emittedIn(out', "gameMatched") :
                       /\ out'[i].payload
                            = [gameId |-> gameId, countdown |-> 5,
                               players |-> << [id |-> queue[1], team |-> "A"],
                                              [id |-> queue[2], team |-> "B"] >>]
                       /\ out'[i].to = {queue[1], queue[2]}
      ]_vars

\* C33: joinMatchmaking emits exactly one matchmakingStatus, to the sender and
\* to nobody else; its position is a 1-based index at which the sender is in the
\* queue after the push (the first such index), its playersWaiting the length of
\* that queue, whether or not the join goes on to pair: 1 <= position <=
\* playersWaiting.
C33_StatusToSenderOnly ==
    [][\A socket \in Conns, gameId \in GameIds :
          JoinMatchmaking(socket, gameId)
          => LET queue == Append(waitingPlayers, socket)
             IN  /\ Cardinality(emittedIn(out', "matchmakingStatus")) = 1
                 /\ \A i \in emittedIn(out', "matchmakingStatus") :
                       LET position == out'[i].payload.position
                       IN  /\ out'[i].to = {socket}
                           /\ out'[i].payload.playersWaiting = Len(queue)
                           /\ 1 <= position /\ position <= Len(queue)
                           /\ queue[position] = socket
                           /\ \A j \in 1..(position - 1) : queue[j] # socket
      ]_vars

\* A connection has just joined while another was waiting: it was told
\* position 2 of 2 players waiting, and the handler went on to pair the two.
C33_Witness ==
    /\ Len(out) = 2
    /\ \E socket \in Conns :
          /\ out[1] = Emit("matchmakingStatus", {socket},
                           [position |-> 2, playersWaiting |-> 2])
          /\ out[2].ev = "gameMatched"
          /\ out[2].payload.players[2].id = socket
          /\ out[2].payload.players[1].id # socket
    /\ waitingPlayers = <<>>

\* C34: a connection that was sent gameEnded, and so is the one player left of
\* the session it was in, and that a later joinMatchmaking paired with another
\* connection has its playerJoin and playerMove routed to the new session: the
\* new opponent is sent the playerJoined and the playerMoved.
C34_RematchRouted ==
    [][\A socket \in Conns, opponent \in Conns, id \in GameIds :
          ( /\ socket # opponent
            /\ id \in DOMAIN activeGames
            /\ Len(activeGames[id].players) = 2
            /\ members(id) = {socket, opponent}
            /\ \E old \in DOMAIN activeGames :
                  old # id /\ activeGames[old].players = <<socket>> )
          => \A stateData \in StateData :
                /\ PlayerJoin(socket, stateData)
                      => \E i \in emittedIn(out', "playerJoined") :
                            opponent \in out'[i].to
                /\ PlayerMove(socket, stateData)
                      => \E i \in emittedIn(out', "playerMoved") :
                            opponent \in out'[i].to
      ]_vars

\* C35: no player of a session in activeGames is a connection whose disconnect
\* has been handled, and activeGames is empty when no connection is connected.
C35_NoDisconnectedRetained ==
    /\ \A id \in DOMAIN activeGames : \A socket \in members(id) :
          sockets[socket] # "disconnected"
    /\ (\A socket \in Conns : sockets[socket] # "connected")
          => DOMAIN activeGames = {}

\* C36: after every handler waitingPlayers holds at most one connection, and a
\* joinMatchmaking creates at most one session: at most one key of activeGames
\* is new or holds another session than before.
C36_QueueAtMostOne ==
    [][ /\ Len(waitingPlayers') <= 1
        /\ \A socket \in Conns, gameId \in GameIds :
              JoinMatchmaking(socket, gameId)
              => /\ matches' <= matches + 1
                 /\ Cardinality({id \in DOMAIN activeGames' :
                        id \in DOMAIN activeGames
                            => activeGames'[id] # activeGames[id]}) <= 1
                 /\ Cardinality(emittedIn(out', "gameMatched")) <= 1
                 /\ Len(waitingPlayers) = 1 => Len(waitingPlayers') = 0
      ]_vars

\* Two sessions have been created and a third connection has just joined and
\* found nobody waiting: it waits alone.
C36_Witness ==
    /\ matches = 2
    /\ Len(waitingPlayers) = 1
    /\ out = << Emit("matchmakingStatus", {waitingPlayers[1]},
                     [position |-> 1, playersWaiting |-> 1]) >>

\* C37: a countdown that fires for an id whose session is 'active' emits no
\* gameStart (the session was sent its gameStart when it became 'active'), and
\* no step takes a session from 'active' back to 'starting'.
C37_StartOnce ==
    [][\A id \in DOMAIN activeGames :
          activeGames[id].state = "active"
          => /\ CountdownTimer(id) => emittedIn(out', "gameStart") = {}
             /\ ( /\ id \in DOMAIN activeGames'
                  /\ activeGames'[id].players = activeGames[id].players )
                => activeGames'[id].state # "starting"
      ]_vars

\* C38: every connection a gameStart is delivered to has the repository's client
\* send exactly one playerJoin for it.
C38_OneJoinPerGameStart ==
    [][\A gameId \in DOMAIN activeGames :
          GameStart(gameId)
          => \A socket \in rooms[gameId] :
                Len(inFlight'[socket]) = Len(inFlight[socket]) + 1
      ]_vars

====
